---- MODULE Spec2Model ----
(***************************************************************************)
(* Model of weather_gui.py: a Tk window whose two button handlers resolve  *)
(* a location, call the weather provider (current conditions, icon,        *)
(* forecast) with blocking HTTP requests and write the result into the     *)
(* window's widgets.                                                       *)
(*                                                                         *)
(* Text is a sequence of string tokens (concatenation is \o), so that the  *)
(* f-strings of the handler are built the way the code builds them.        *)
(* Strings on which the code computes character by character (the city     *)
(* entry, the condition description) are sequences of one-character        *)
(* strings.  A JSON number is Num(n), Python's None is None, a JSON        *)
(* object is a record whose DOMAIN is the set of keys it holds.            *)
(***************************************************************************)
EXTENDS Integers, Sequences, FiniteSets, TLC

\* ---------------------------------------------------------------- bounds
MaxLen == 1          \* longest text typed into the city entry
MaxFc == 6           \* longest forecast list the provider returns

\* ------------------------------------------------------- Python values
None == [none |-> TRUE]
Num(n) == [num |-> n]
Str(s) == [str |-> s]
EmptyDict == [k \in {} |-> k]
Dict(d) == [dict |-> d]
JList(s) == [list |-> s]
BadJson == [badjson |-> TRUE]
IsDict(b) == "dict" \in DOMAIN b

\* dict.get(k, default)
Get(d, k, default) == IF k \in DOMAIN d THEN d[k] ELSE default

\* truth value of `if q:` for q a str or None
Truthy(v) == "str" \in DOMAIN v /\ v.str # <<>>

\* f"{v}" for a number, None or a str
Fmt(v) ==
  IF "num" \in DOMAIN v THEN ToString(v.num)
  ELSE IF "str" \in DOMAIN v THEN v.str
  ELSE "None"

\* ----------------------------------------------------------- str.strip
Whitespace == {" ", "\t", "\n"}

RECURSIVE LStrip(_)
LStrip(s) ==
  IF s = <<>> THEN <<>>
  ELSE IF Head(s) \in Whitespace THEN LStrip(Tail(s))
  ELSE s

RECURSIVE RStrip(_)
RStrip(s) ==
  IF s = <<>> THEN <<>>
  ELSE IF s[Len(s)] \in Whitespace THEN RStrip(SubSeq(s, 1, Len(s) - 1))
  ELSE s

\* mutant: the entry text is used as typed
StripNothing(s) == s

Strip(s) == RStrip(LStrip(s))

\* ----------------------------------------------------------- str.title
Lowers == <<"a","b","c","d","e","f","g","h","i","j","k","l","m",
            "n","o","p","q","r","s","t","u","v","w","x","y","z">>
Uppers == <<"A","B","C","D","E","F","G","H","I","J","K","L","M",
            "N","O","P","Q","R","S","T","U","V","W","X","Y","Z">>

IsCased(c) == \E i \in 1..26 : Lowers[i] = c \/ Uppers[i] = c
UpperOf(c) == IF \E i \in 1..26 : Lowers[i] = c
              THEN Uppers[CHOOSE i \in 1..26 : Lowers[i] = c] ELSE c
LowerOf(c) == IF \E i \in 1..26 : Uppers[i] = c
              THEN Lowers[CHOOSE i \in 1..26 : Uppers[i] = c] ELSE c

RECURSIVE TitleFrom(_, _)
TitleFrom(s, prevCased) ==
  IF s = <<>> THEN <<>>
  ELSE <<IF prevCased THEN LowerOf(Head(s)) ELSE UpperOf(Head(s))>>
       \o TitleFrom(Tail(s), IsCased(Head(s)))

Title(s) == TitleFrom(s, FALSE)

\* ------------------------------------------------------------ constants
API_KEY == "KEY"
WEATHER_URL == "https://api.openweathermap.org/data/2.5/weather"
FORECAST_URL == "https://api.openweathermap.org/data/2.5/forecast"
GEO_URL == "http://ip-api.com/json/"
IconUrl(code) == <<"http://openweathermap.org/img/wn/", code, "@2x.png">>
IconSize == <<100, 100>>
ForecastShown == 5
\* mutant: a failed forecast only clears the text
NoForecastBlank == <<>>
NoForecast == <<"No forecast available.">>

\* The module is ASCII: "degC"/"degF" stand for the degree-sign suffixes of
\* line 146 and "--" for the dash of lines 173-176.
DEG_C == "degC"
DEG_F == "degF"
DASH == "--"

\* ------------------------------------------- what the network can answer
NetErr == [kind |-> "neterr"]
Http(s, b) == [kind |-> "http", status |-> s, body |-> b]
NoResp == [kind |-> "none"]

Clear == <<"c","l","e","a","r"," ","s","k","y">>
Rain == <<"r","a","i","n">>

WFull ==
  [name |-> "Bengaluru", sys |-> [country |-> "IN"],
   weather |-> <<[description |-> Clear, icon |-> <<"01d">>]>>,
   main |-> [temp |-> Num(27), feels_like |-> Num(29), humidity |-> Num(70)],
   wind |-> [speed |-> Num(3)]]
WOther ==
  [name |-> "Paris", sys |-> [country |-> "FR"],
   weather |-> <<[description |-> Rain, icon |-> <<"10n">>]>>,
   main |-> [temp |-> Num(81)]]
WNoWeather ==
  [name |-> "Oslo", sys |-> [country |-> "NO"],
   main |-> [temp |-> Num(5), feels_like |-> Num(1), humidity |-> Num(80)],
   wind |-> [speed |-> Num(9)]]
WNoIcon == [weather |-> <<[description |-> Rain]>>]
WEmptyList == [name |-> "Cairo", weather |-> <<>>]

WeatherBodies == {WFull, WOther, WNoWeather, WNoIcon, WEmptyList}

ErrorBodies ==
  {JList(<<>>),
   Dict([cod |-> "404", message |-> "city not found"]),
   Dict([cod |-> "404"])}

WeatherResponses ==
  {NetErr, Http(200, BadJson)}
  \cup {Http(200, Dict(b)) : b \in WeatherBodies}
  \cup {Http(404, b) : b \in ErrorBodies}
  \cup {Http(500, BadJson)}

Png(code) == [png |-> code]
Garbage == [garbage |-> TRUE]
IconResponses(code) ==
  {NetErr, Http(404, Garbage), Http(200, Garbage), Http(200, Png(code))}

\* the i-th sample of the provider's forecast list
Sample(i) ==
  IF i = 2 THEN EmptyDict
  ELSE IF i = 3 THEN [dt_txt |-> "t3", main |-> EmptyDict,
                      weather |-> <<EmptyDict>>]
  ELSE [dt_txt |-> "t" \o ToString(i), main |-> [temp |-> Num(20 + i)],
        weather |-> <<[description |-> Rain]>>]
Feed(n) == [i \in 1..n |-> Sample(i)]
\* Feed(n) whose k-th sample has an empty weather list
Broken(n, k) ==
  [i \in 1..n |-> IF i = k THEN [dt_txt |-> "bad", weather |-> <<>>]
                  ELSE Sample(i)]

ForecastResponses ==
  {NetErr, Http(500, BadJson), Http(200, BadJson), Http(200, Dict(EmptyDict))}
  \cup {Http(200, Dict([list |-> Feed(n)])) : n \in 0..MaxFc}
  \cup {Http(200, Dict([list |-> Broken(MaxFc, k)])) : k \in {1, MaxFc}}

GeoResponses ==
  {NetErr, Http(500, BadJson),
   Http(200, Dict([status |-> "fail"])),
   Http(200, Dict([lat |-> Num(13)])),
   Http(200, Dict([lat |-> Str("x"), lon |-> Num(77)])),
   Http(200, Dict([lat |-> Num(0), lon |-> Num(0)]))}

Chars == {" ", "a"}
Texts == UNION {[1..n -> Chars] : n \in 0..MaxLen}

\* ------------------------------------------------------ requests library
\* mutant: only 5xx raises
raise_for_status_5xx(r) == 500 <= r.status /\ r.status < 600

\* Response.raise_for_status raises HTTPError for 4xx and 5xx
raise_for_status(r) == 400 <= r.status /\ r.status < 600

StrHTTPError(r) == ToString(r.status) \o " Error for url"

\* the query parameters of fetch_weather / fetch_forecast
Params(q, lat, lon, units) ==
  IF Truthy(q)
  THEN [appid |-> API_KEY, units |-> units, q |-> q.str]
  ELSE [appid |-> API_KEY, units |-> units, lat |-> lat, lon |-> lon]

\* What a call of fetch_weather ends with when the provider answers r.
\* Response.json on an undecodable body raises an exception that is a
\* RequestException in some releases of requests and a plain ValueError in
\* others; both are outcomes.
fetch_weather(r) ==
  IF r.kind = "neterr"
  THEN {[kind |-> "RequestException", str |-> "connection failed"]}
  ELSE IF raise_for_status(r)
  THEN {[kind |-> "HTTPError", response |-> r, str |-> StrHTTPError(r)]}
  ELSE IF r.body = BadJson
  THEN {[kind |-> "RequestException", str |-> "invalid json"],
        [kind |-> "ValueError", str |-> "invalid json"]}
  ELSE {[kind |-> "ok", data |-> r.body]}

fetch_forecast(r) ==
  IF r.kind = "neterr"
  THEN {[kind |-> "RequestException", str |-> "connection failed"]}
  ELSE IF raise_for_status(r)
  THEN {[kind |-> "HTTPError", response |-> r, str |-> StrHTTPError(r)]}
  ELSE IF r.body = BadJson
  THEN {[kind |-> "RequestException", str |-> "invalid json"],
        [kind |-> "ValueError", str |-> "invalid json"]}
  ELSE {[kind |-> "ok", data |-> r.body]}

\* float(v) raises unless v is a number
FloatOk(v) == "num" \in DOMAIN v

\* mutant: a failed lookup falls back to a default position
my_location_default(r) ==
  IF r.kind = "neterr" THEN <<Num(0), Num(0)>>
  ELSE IF raise_for_status(r) THEN <<Num(0), Num(0)>>
  ELSE IF r.body = BadJson \/ ~IsDict(r.body) THEN <<Num(0), Num(0)>>
  ELSE IF "lat" \notin DOMAIN r.body.dict THEN <<Num(0), Num(0)>>
  ELSE IF ~FloatOk(r.body.dict.lat) THEN <<Num(0), Num(0)>>
  ELSE IF "lon" \notin DOMAIN r.body.dict THEN <<Num(0), Num(0)>>
  ELSE IF ~FloatOk(r.body.dict.lon) THEN <<Num(0), Num(0)>>
  ELSE <<r.body.dict.lat, r.body.dict.lon>>

my_location(r) ==
  IF r.kind = "neterr" THEN <<None, None>>
  ELSE IF raise_for_status(r) THEN <<None, None>>
  ELSE IF r.body = BadJson \/ ~IsDict(r.body) THEN <<None, None>>
  ELSE IF "lat" \notin DOMAIN r.body.dict THEN <<None, None>>
  ELSE IF ~FloatOk(r.body.dict.lat) THEN <<None, None>>
  ELSE IF "lon" \notin DOMAIN r.body.dict THEN <<None, None>>
  ELSE IF ~FloatOk(r.body.dict.lon) THEN <<None, None>>
  ELSE <<r.body.dict.lat, r.body.dict.lon>>

\* mutant: the notice always carries str(e)
ApiErrorMsgGeneric(e) == e.str

\* lines 128-131: the text of the "API error" notice
ApiErrorMsg(e) ==
  IF e.response.body = BadJson \/ ~IsDict(e.response.body) THEN e.str
  ELSE Get(e.response.body.dict, "message", e.str)

\* mutant: the two suffixes are swapped
UnitsLabelSwapped(u) == IF u = "metric" THEN DEG_F ELSE DEG_C

\* line 146
UnitsLabel(u) == IF u = "metric" THEN DEG_C ELSE DEG_F

\* lines 173-176: one line of the forecast text
ForecastLine(it, units_label) ==
  <<Get(it, "dt_txt", DASH), " -- ",
    Fmt(Get(Get(it, "main", EmptyDict), "temp", Str(DASH))), units_label,
    " -- ">>
  \o Title(Get(Get(it, "weather", <<EmptyDict>>)[1], "description", <<>>))
  \o <<"\n">>

\* mutant: the list is not cut to five
AllItems(fc) == Get(fc, "list", <<>>)

\* line 170: fc.get("list", [])[:5]
FirstItems(fc) ==
  LET l == Get(fc, "list", <<>>)
  IN  SubSeq(l, 1, IF Len(l) < ForecastShown THEN Len(l) ELSE ForecastShown)

\* lines 172-176 raise when an item's weather list is empty
ItemRaises(it) == Len(Get(it, "weather", <<EmptyDict>>)) = 0

RECURSIVE ForecastText(_, _)
ForecastText(items, units_label) ==
  IF items = <<>> THEN <<>>
  ELSE ForecastLine(Head(items), units_label)
       \o ForecastText(Tail(items), units_label)

\* ------------------------------------------------------------------ state
VARIABLES
  city_var,       \* text of the city entry (characters)
  unit,           \* the unit radio buttons
  city_label, cond_label, temp_label, detail_label,   \* text of the labels
  icon_label,     \* image option of the icon label; <<>> is image=""
  icon_img,       \* self.icon_img
  forecast_text,  \* content of the forecast Text widget
  pc,             \* where the event thread is: "idle" in mainloop, else the
                  \* blocking request the running handler waits for
  args,           \* q, lat, lon of the running fetch_and_display
  units,          \* its local units
  event,          \* the button whose handler ran last
  log,            \* requests that handler has issued, in order
  inflight,       \* requests issued and not yet answered
  resp,           \* the answer that handler got from each endpoint
  modals,         \* message boxes that handler has shown, in order
  raised,         \* that handler ended with an exception Tk reported
  last_ok_units   \* units sent by the last handler that filled the labels

vars == <<city_var, unit, city_label, cond_label, temp_label, detail_label,
          icon_label, icon_img, forecast_text, pc, args, units, event, log,
          inflight, resp, modals, raised, last_ok_units>>

Display == <<city_label, cond_label, temp_label, detail_label, icon_label,
             forecast_text>>
widgets == <<city_label, cond_label, temp_label, detail_label, icon_label,
             icon_img, forecast_text>>
labels == <<city_label, cond_label, temp_label, detail_label>>
inputs == <<city_var, unit>>

NoArgs == [q |-> None, lat |-> None, lon |-> None]
NoResps == [geo |-> NoResp, weather |-> NoResp, icon |-> NoResp,
            forecast |-> NoResp]
Modal(kind, title, msg) == [kind |-> kind, title |-> title, msg |-> msg]

\* lines 53-59, 61-107; the entry starts with a non-blank default city
\* (line 69), written here with the one letter of Chars
Init ==
  /\ city_var = <<"a">>
  /\ unit = "metric"
  /\ city_label = <<>> /\ cond_label = <<>>
  /\ temp_label = <<>> /\ detail_label = <<>>
  /\ icon_label = <<>> /\ icon_img = None
  /\ forecast_text = <<>>
  /\ pc = "idle"
  /\ args = NoArgs /\ units = ""
  /\ event = "none"
  /\ log = <<>> /\ inflight = {} /\ resp = NoResps
  /\ modals = <<>> /\ raised = FALSE
  /\ last_ok_units = <<>>

\* ------------------------------------------------------------ user input
\* The user edits the entry; mainloop dispatches it between handlers.
TypeCity(s) ==
  /\ pc = "idle"
  /\ city_var' = s
  /\ UNCHANGED <<unit, widgets, pc, args, units, event, log, inflight, resp,
                 modals, raised, last_ok_units>>

SelectUnit(u) ==
  /\ pc = "idle"
  /\ unit' = u
  /\ UNCHANGED <<city_var, widgets, pc, args, units, event, log, inflight,
                 resp, modals, raised, last_ok_units>>

\* ------------------------------------------------------------- handlers
WeatherRequest(q, lat, lon, u) ==
  [ep |-> "weather", url |-> WEATHER_URL, params |-> Params(q, lat, lon, u)]
ForecastRequest(q, lat, lon, u) ==
  [ep |-> "forecast", url |-> FORECAST_URL, params |-> Params(q, lat, lon, u)]
IconRequest(code) == [ep |-> "icon", url |-> IconUrl(code)]
GeoRequest == [ep |-> "geo", url |-> GEO_URL]

\* lines 123-126: entry of fetch_and_display up to the blocking GET of
\* fetch_weather; lg is the log of the handler so far
BeginFetch(q, lat, lon, lg) ==
  /\ args' = [q |-> q, lat |-> lat, lon |-> lon]
  /\ units' = unit
  /\ log' = Append(lg, WeatherRequest(q, lat, lon, unit))
  /\ inflight' = {"weather"}
  /\ pc' = "weather"

\* the handler returns (or unwinds) to mainloop
Return ==
  /\ pc' = "idle"
  /\ args' = NoArgs
  /\ units' = ""
  /\ inflight' = {}

\* lines 109-114
OnGetWeather ==
  /\ pc = "idle"
  /\ event' = "get"
  /\ resp' = NoResps
  /\ raised' = FALSE
  /\ LET q == Strip(city_var)
     IN  IF q = <<>>
         THEN /\ modals' = <<Modal("info", "Input needed",
                      "Enter a city name or click Use My Location.")>>
              /\ log' = <<>>
              /\ Return
         ELSE /\ modals' = <<>>
              /\ BeginFetch(Str(q), None, None, <<>>)
  /\ UNCHANGED <<inputs, widgets, last_ok_units>>

\* lines 116-117 and 43-45: up to the blocking GET of my_location
OnUseLocation ==
  /\ pc = "idle"
  /\ event' = "loc"
  /\ resp' = NoResps
  /\ raised' = FALSE
  /\ modals' = <<>>
  /\ log' = <<GeoRequest>>
  /\ inflight' = {"geo"}
  /\ pc' = "geo"
  /\ UNCHANGED <<inputs, widgets, args, units, last_ok_units>>

\* lines 45-50 and 117-121: the geolocation service has answered
GeoResponse(r) ==
  /\ pc = "geo"
  /\ resp' = [resp EXCEPT !.geo = r]
  /\ LET lat == my_location(r)[1]
         lon == my_location(r)[2]
     IN  IF lat = None
         THEN /\ modals' = Append(modals, Modal("error", "Location failed",
                      "Could not detect location via IP."))
              /\ Return
              /\ UNCHANGED log
         ELSE /\ BeginFetch(None, lat, lon, log)
              /\ UNCHANGED modals
  /\ UNCHANGED <<inputs, widgets, event, raised, last_ok_units>>

\* mutant: a failed current-conditions call is issued again
WeatherFailedRetry(r) ==
  /\ pc = "weather"
  /\ \E e \in fetch_weather(r) :
       e.kind \in {"HTTPError", "RequestException"}
  /\ resp' = [resp EXCEPT !.weather = r]
  /\ log' = Append(log, WeatherRequest(args.q, args.lat, args.lon, units))
  /\ UNCHANGED <<inputs, widgets, pc, args, units, event, inflight, modals,
                 raised, last_ok_units>>

\* lines 126-136: fetch_weather raised a requests exception
WeatherFailed(r) ==
  /\ pc = "weather"
  /\ \E e \in fetch_weather(r) :
       /\ e.kind \in {"HTTPError", "RequestException"}
       /\ modals' = Append(modals,
            IF e.kind = "HTTPError"
            THEN Modal("error", "API error", ApiErrorMsg(e))
            ELSE Modal("error", "Network error", e.str))
  /\ resp' = [resp EXCEPT !.weather = r]
  /\ Return
  /\ UNCHANGED <<inputs, widgets, event, log, raised, last_ok_units>>

\* An exception fetch_and_display does not catch: a ValueError out of
\* fetch_weather (line 29), .get on a body that is not an object (line 139)
\* or [0] on an empty weather list (line 141).  All are raised before the
\* first label is written; Tk reports the exception and goes on.
WeatherRaises(r) ==
  \E e \in fetch_weather(r) :
    IF e.kind = "ValueError" THEN TRUE
    ELSE IF e.kind # "ok" THEN FALSE
    ELSE IF ~IsDict(e.data) THEN TRUE
    ELSE Len(Get(e.data.dict, "weather", <<EmptyDict>>)) = 0

WeatherCrashed(r) ==
  /\ pc = "weather"
  /\ WeatherRaises(r)
  /\ resp' = [resp EXCEPT !.weather = r]
  /\ raised' = TRUE
  /\ Return
  /\ UNCHANGED <<inputs, widgets, event, log, modals, last_ok_units>>

\* line 154
IconCode(data) ==
  LET w == Get(data, "weather", <<EmptyDict>>)[1]
  IN  IF "icon" \in DOMAIN w THEN Str(w.icon) ELSE None

\* the units parameter of the request that lg holds for endpoint ep
SentUnits(lg, ep) ==
  lg[CHOOSE i \in 1..Len(lg) : lg[i].ep = ep].params.units

\* lines 166-168: up to the blocking GET of fetch_forecast
BeginForecast(lg) ==
  /\ log' = Append(lg, ForecastRequest(args.q, args.lat, args.lon, units))
  /\ inflight' = {"forecast"}
  /\ pc' = "forecast"
  /\ last_ok_units' = <<SentUnits(log', "weather"), SentUnits(log', "forecast")>>

\* lines 138-157 (no icon code: to line 168): the labels are written, then
\* the icon is requested, or with no icon code the forecast is
WeatherDisplayed(r) ==
  /\ pc = "weather"
  /\ \E e \in fetch_weather(r) :
       /\ e.kind = "ok" /\ IsDict(e.data)
       /\ Len(Get(e.data.dict, "weather", <<EmptyDict>>)) > 0
       /\ LET data == e.data.dict
              name == Get(data, "name", "")
              country == Get(Get(data, "sys", EmptyDict), "country", "")
              weather_desc ==
                Title(Get(Get(data, "weather", <<EmptyDict>>)[1],
                          "description", <<>>))
              temp == Get(Get(data, "main", EmptyDict), "temp", None)
              feels == Get(Get(data, "main", EmptyDict), "feels_like", None)
              humidity == Get(Get(data, "main", EmptyDict), "humidity", None)
              wind == Get(Get(data, "wind", EmptyDict), "speed", None)
              units_label == UnitsLabel(units)
              icon_code == IconCode(data)
          IN  /\ city_label' = <<name, ", ", country>>
              /\ cond_label' = weather_desc
              /\ temp_label' = <<Fmt(temp), " ", units_label>>
              /\ detail_label' =
                   <<"Feels like: ", Fmt(feels), " ", units_label,
                     " | Humidity: ", Fmt(humidity), "% | Wind: ",
                     Fmt(wind), " m/s">>
              /\ IF Truthy(icon_code)
                 THEN /\ log' = Append(log, IconRequest(icon_code.str))
                      /\ inflight' = {"icon"}
                      /\ pc' = "icon"
                      /\ UNCHANGED last_ok_units
                 ELSE BeginForecast(log)
  /\ resp' = [resp EXCEPT !.weather = r]
  /\ UNCHANGED <<inputs, icon_label, icon_img, forecast_text, args, units,
                 event, modals, raised>>

\* lines 157-160 raise on a failed download or an undecodable image
IconFails(r) ==
  IF r.kind = "neterr" THEN TRUE
  ELSE IF raise_for_status(r) THEN TRUE
  ELSE r.body = Garbage

\* the icon code in the URL of the icon request of lg (line 157)
RequestedIconOf(lg) ==
  lg[CHOOSE i \in 1..Len(lg) : lg[i].ep = "icon"].url[2]
RequestedIcon == RequestedIconOf(log)

\* mutant: the except clause of line 163 does not clear the label
IconResponseKeeps(r) ==
  /\ pc = "icon"
  /\ IF IconFails(r)
     THEN UNCHANGED <<icon_label, icon_img>>
     ELSE /\ icon_img' = [image |-> r.body.png, size |-> IconSize]
          /\ icon_label' = <<icon_img'>>
  /\ resp' = [resp EXCEPT !.icon = r]
  /\ BeginForecast(log)
  /\ UNCHANGED <<inputs, labels, forecast_text, args, units, event, modals,
                 raised>>

\* lines 157-168: the icon request has been answered
IconResponse(r) ==
  /\ pc = "icon"
  /\ IF IconFails(r)
     THEN /\ icon_label' = <<>>
          /\ UNCHANGED icon_img
     ELSE /\ icon_img' = [image |-> r.body.png, size |-> IconSize]
          /\ icon_label' = <<icon_img'>>
  /\ resp' = [resp EXCEPT !.icon = r]
  /\ BeginForecast(log)
  /\ UNCHANGED <<inputs, labels, forecast_text, args, units, event, modals,
                 raised>>

\* lines 168-176 raise: any exception of fetch_forecast or of the loop
ForecastFails(r) ==
  \E e \in fetch_forecast(r) :
    IF e.kind # "ok" THEN TRUE
    ELSE IF ~IsDict(e.data) THEN TRUE
    ELSE \E i \in DOMAIN FirstItems(e.data.dict) :
           ItemRaises(FirstItems(e.data.dict)[i])

\* lines 168-186: the forecast request has been answered
ForecastResponse(r) ==
  /\ pc = "forecast"
  /\ IF ForecastFails(r)
     THEN forecast_text' = NoForecast
     ELSE forecast_text' =
            ForecastText(FirstItems(r.body.dict), UnitsLabel(units))
  /\ resp' = [resp EXCEPT !.forecast = r]
  /\ Return
  /\ UNCHANGED <<inputs, labels, icon_label, icon_img, event, log, modals,
                 raised, last_ok_units>>

Next ==
  \/ \E s \in Texts : TypeCity(s)
  \/ \E u \in {"metric", "imperial"} : SelectUnit(u)
  \/ OnGetWeather
  \/ OnUseLocation
  \/ \E r \in GeoResponses : GeoResponse(r)
  \/ \E r \in WeatherResponses : WeatherFailed(r)
  \/ \E r \in WeatherResponses : WeatherCrashed(r)
  \/ \E r \in WeatherResponses : WeatherDisplayed(r)
  \/ pc = "icon" /\ \E r \in IconResponses(RequestedIcon) : IconResponse(r)
  \/ \E r \in ForecastResponses : ForecastResponse(r)

Spec == Init /\ [][Next]_vars

\* ===================================================== checked properties
\* What the window has to show for each provider body, written out by hand.
Shown(b) ==
  CASE b = WFull ->
         [city |-> "Bengaluru", country |-> "IN",
          cond |-> <<"C","l","e","a","r"," ","S","k","y">>,
          temp |-> "27", feels |-> "29", humidity |-> "70", wind |-> "3"]
    [] b = WOther ->
         [city |-> "Paris", country |-> "FR", cond |-> <<"R","a","i","n">>,
          temp |-> "81", feels |-> "None", humidity |-> "None",
          wind |-> "None"]
    [] b = WNoWeather ->
         [city |-> "Oslo", country |-> "NO", cond |-> <<>>,
          temp |-> "5", feels |-> "1", humidity |-> "80", wind |-> "9"]
    [] b = WNoIcon ->
         [city |-> "", country |-> "", cond |-> <<"R","a","i","n">>,
          temp |-> "None", feels |-> "None", humidity |-> "None",
          wind |-> "None"]

SuffixFor(u) ==
  CASE u = "metric" -> "degC" [] u = "imperial" -> "degF" [] OTHER -> "?"

\* the four text labels show body b with the suffix of units u
LabelsShow(b, u) ==
  /\ city_label = <<Shown(b).city, ", ", Shown(b).country>>
  /\ cond_label = Shown(b).cond
  /\ temp_label = <<Shown(b).temp, " ", SuffixFor(u)>>
  /\ detail_label =
       <<"Feels like: ", Shown(b).feels, " ", SuffixFor(u), " | Humidity: ",
         Shown(b).humidity, "% | Wind: ", Shown(b).wind, " m/s">>

RECURSIVE SplitLines(_, _)
SplitLines(text, cur) ==
  IF text = <<>> THEN <<>>
  ELSE IF Head(text) = "\n" THEN <<cur>> \o SplitLines(Tail(text), <<>>)
  ELSE SplitLines(Tail(text), Append(cur, Head(text)))
\* the newline-terminated lines of a text
LinesOf(text) == SplitLines(text, <<>>)

Blank(s) == \A i \in 1..Len(s) : s[i] \in {" ", "\t", "\n"}
Min(a, b) == IF a < b THEN a ELSE b
IsPrefix(s, t) == Len(s) <= Len(t) /\ SubSeq(t, 1, Len(s)) = s
Endpoints(lg) == [i \in 1..Len(lg) |-> lg[i].ep]
Asked(ep) == \E i \in 1..Len(log) : log[i].ep = ep
SomethingShown == city_label # <<>> /\ forecast_text # <<>>
IconShown == icon_label # <<>>

\* the current-conditions call got a 200 answer with a JSON object
WeatherOk(r) ==
  IF r.kind # "http" THEN FALSE
  ELSE IF r.status # 200 THEN FALSE
  ELSE IsDict(r.body)

\* provider error or network failure
CallFailed(r) ==
  IF r.kind = "neterr" THEN TRUE
  ELSE IF r.kind # "http" THEN FALSE
  ELSE r.status >= 400

\* the forecast list of a 200 answer with a JSON object
ListOf(r) == IF "list" \in DOMAIN r.body.dict THEN r.body.dict.list ELSE <<>>
\* a sample the loop cannot format
Malformed(it) == IF "weather" \in DOMAIN it THEN it.weather = <<>> ELSE FALSE

\* non-success status, timeout, connection error or malformed body
ForecastCallFailed(r) ==
  IF r.kind = "none" THEN FALSE
  ELSE IF CallFailed(r) THEN TRUE
  ELSE IF ~IsDict(r.body) THEN TRUE
  ELSE \E i \in 1..Min(Len(ListOf(r)), 5) : Malformed(ListOf(r)[i])

ForecastCallOk(r) ==
  IF r.kind # "http" THEN FALSE
  ELSE IF r.status >= 400 THEN FALSE
  ELSE IF ~IsDict(r.body) THEN FALSE
  ELSE \A i \in 1..Min(Len(ListOf(r)), 5) : ~Malformed(ListOf(r)[i])

\* --------------------------------------------------------------------- C1
\* C1: with an empty or whitespace-only entry, "get weather" issues no
\* request, shows exactly the validation notice and changes no display
\* region, whatever is displayed.
C1_BlankInputIssuesNothing ==
  [][(OnGetWeather /\ Blank(city_var))
       => /\ log' = <<>> /\ inflight' = {} /\ pc' = "idle"
          /\ Len(modals') = 1 /\ modals'[1].title = "Input needed"
          /\ Display' = Display /\ icon_img' = icon_img]_vars

C1_Witness ==
  /\ pc = "idle" /\ event = "get" /\ log = <<>>
  /\ Len(modals) = 1 /\ modals[1].title = "Input needed"
  /\ city_var # <<>> /\ Blank(city_var)
  /\ SomethingShown /\ IconShown

\* --------------------------------------------------------------------- C2
LookupFailed(r) ==
  IF r.kind # "http" THEN TRUE
  ELSE IF r.status >= 400 THEN TRUE
  ELSE IF ~IsDict(r.body) THEN TRUE
  ELSE IF ~({"lat", "lon"} \subseteq DOMAIN r.body.dict) THEN TRUE
  ELSE ~("num" \in DOMAIN r.body.dict.lat /\ "num" \in DOMAIN r.body.dict.lon)

\* C2: when the device-location lookup fails, "use my location" shows the
\* modal "Location failed", issues no weather, icon or forecast request and
\* leaves every display region as it was before the action.
C2_LocationFailureBlocks ==
  [][/\ (pc = "idle" /\ pc' = "geo") => Display' = Display
     /\ (pc = "geo" /\ LookupFailed(resp'.geo))
          => /\ pc' = "idle" /\ inflight' = {}
             /\ Endpoints(log') = <<"geo">>
             /\ Len(modals') = 1 /\ modals'[1].title = "Location failed"
             /\ Display' = Display /\ icon_img' = icon_img]_vars

C2_Witness ==
  /\ pc = "idle" /\ event = "loc" /\ LookupFailed(resp.geo)
  /\ resp.geo.kind = "http" /\ resp.geo.status = 200
  /\ Len(modals) = 1 /\ modals[1].title = "Location failed"
  /\ SomethingShown /\ IconShown

HasMessage(r) ==
  IF ~IsDict(r.body) THEN FALSE ELSE "message" \in DOMAIN r.body.dict

\* C4: for a current-conditions response with status >= 400 the text of the
\* modal is the provider's message field when the body is valid JSON holding
\* it, and the generic error string of the HTTP error otherwise.
C4_ApiErrorText ==
  (pc = "idle" /\ resp.weather.kind = "http" /\ resp.weather.status >= 400)
    => /\ Len(modals) = 1
       /\ modals[1].title = "API error"
       /\ modals[1].msg =
            IF HasMessage(resp.weather) THEN resp.weather.body.dict.message
            ELSE ToString(resp.weather.status) \o " Error for url"

C4_Witness ==
  /\ pc = "idle" /\ resp.weather.kind = "http" /\ resp.weather.status = 404
  /\ HasMessage(resp.weather)
  /\ modals[1].msg = "city not found"

C4_WitnessGeneric ==
  /\ pc = "idle" /\ resp.weather.kind = "http" /\ resp.weather.status = 404
  /\ resp.weather.body = Dict([cod |-> "404"])
  /\ modals[1].msg = "404 Error for url"

\* --------------------------------------------------------------------- C5
\* the timestamp the i-th line has to start with
StampOf(it) == IF "dt_txt" \in DOMAIN it THEN it.dt_txt ELSE "--"

\* C5: a successful forecast response whose list has n entries replaces the
\* forecast region by exactly min(n, 5) lines, the i-th made from the i-th
\* entry of the list; n = 0 gives an empty text, not the placeholder and not
\* a modal.
C5_FirstFiveLines ==
  (pc = "idle" /\ ForecastCallOk(resp.forecast))
    => LET l == ListOf(resp.forecast)
           lines == LinesOf(forecast_text)
       IN  /\ Len(lines) = Min(Len(l), 5)
           /\ \A i \in 1..Len(lines) : lines[i][1] = StampOf(l[i])
           /\ Len(l) = 0 => forecast_text = <<>>
           /\ forecast_text # <<"No forecast available.">>
           /\ forecast_text = <<>> \/ forecast_text[Len(forecast_text)] = "\n"
           /\ modals = <<>> /\ ~raised

C5_Witness ==
  /\ pc = "idle" /\ ForecastCallOk(resp.forecast)
  /\ Len(ListOf(resp.forecast)) > 5
  /\ Len(LinesOf(forecast_text)) = 5

C5_WitnessEmpty ==
  /\ pc = "idle" /\ ForecastCallOk(resp.forecast)
  /\ "list" \in DOMAIN resp.forecast.body.dict
  /\ Len(ListOf(resp.forecast)) = 0
  /\ forecast_text = <<>>
  /\ city_label # <<>>

\* --------------------------------------------------------------------- C6
\* C6: after a successful current-conditions response that lacks the
\* weather list, from any prior display state, the handler has raised
\* nothing and the condition label and the icon region are both empty.
C6_NoWeatherListShowsNothing ==
  (pc = "idle" /\ WeatherOk(resp.weather)
     /\ "weather" \notin DOMAIN resp.weather.body.dict)
    => /\ ~raised
       /\ cond_label = <<>>
       /\ icon_label = <<>>

\* the part of C6 the handler does keep: nothing raised, condition empty
C6_NoWeatherListConditionEmpty ==
  (pc = "idle" /\ WeatherOk(resp.weather)
     /\ "weather" \notin DOMAIN resp.weather.body.dict)
    => /\ ~raised
       /\ cond_label = <<>>

\* --------------------------------------------------------------------- C7
\* the suffix tokens on display all equal s
SuffixesAre(s) ==
  /\ temp_label[3] = s
  /\ detail_label[4] = s
  /\ LET lines == LinesOf(forecast_text)
     IN  \A i \in 1..Len(lines) : lines[i][4] = s

UnitsConsistent ==
  (pc = "idle" /\ last_ok_units # <<>>)
    => /\ last_ok_units[1] = last_ok_units[2]
       /\ last_ok_units[1] \in {"metric", "imperial"}
       /\ last_ok_units[1] = "metric" => SuffixesAre("degC")
       /\ last_ok_units[1] = "imperial" => SuffixesAre("degF")

\* C7: whenever the window is idle, the suffix of the temperature label, of
\* the feels-like part of the detail label and of every forecast line is the
\* same, degC exactly when the units parameter of both requests of the most
\* recent successful fetch was metric and degF exactly when it was imperial;
\* a change of the unit control changes nothing on display.
C7_UnitSuffixConsistent ==
  /\ []UnitsConsistent
  /\ [][unit' # unit => (Display' = Display /\ icon_img' = icon_img)]_vars

C7_Witness ==
  /\ pc = "idle" /\ last_ok_units = <<"imperial", "imperial">>
  /\ unit = "metric"
  /\ event = "get" /\ CallFailed(resp.weather)
  /\ Len(LinesOf(forecast_text)) = 5
  /\ SuffixesAre("degF")

\* --------------------------------------------------------------------- C8
\* C8: when the current-conditions call fails with a provider error or a
\* network failure, one modal is shown, no icon and no forecast request is
\* issued, and every display region keeps the content it had before the
\* action.
C8_CurrentFailureBlocks ==
  [][/\ (pc \in {"idle", "geo"} /\ pc' = "weather") => Display' = Display
     /\ (pc = "weather" /\ CallFailed(resp'.weather))
          => /\ pc' = "idle" /\ inflight' = {}
             /\ log' = log
             /\ Endpoints(log)[Len(log)] = "weather"
             /\ Len(modals') = 1 /\ modals'[1].kind = "error"
             /\ Display' = Display /\ icon_img' = icon_img]_vars

C8_Witness ==
  /\ pc = "idle" /\ resp.weather = NetErr
  /\ Len(modals) = 1 /\ modals[1].title = "Network error"
  /\ SomethingShown /\ IconShown
  /\ ~Asked("icon") /\ ~Asked("forecast")

\* --------------------------------------------------------------------- C9
IconCallFailed(r) ==
  IF r.kind = "none" THEN FALSE
  ELSE IF r.kind = "neterr" THEN TRUE
  ELSE IF r.status >= 400 THEN TRUE
  ELSE "png" \notin DOMAIN r.body

ForecastRendered(r) ==
  IF ForecastCallFailed(r) THEN forecast_text = <<"No forecast available.">>
  ELSE Len(LinesOf(forecast_text)) = Min(Len(ListOf(r)), 5)

\* C9: when the icon download or decode fails after a successful
\* current-conditions call, nothing is raised and no modal is shown, the
\* icon region shows no image, the text labels hold the new response's
\* values, and the forecast request of the same handler is issued and its
\* answer rendered.
C9_IconFailureSwallowed ==
  IconCallFailed(resp.icon)
    => /\ pc \in {"forecast", "idle"}
       /\ modals = <<>> /\ ~raised
       /\ icon_label = <<>>
       /\ LabelsShow(resp.weather.body.dict, SentUnits(log, "weather"))
       /\ Endpoints(log)[Len(log)] = "forecast"
       /\ pc = "forecast" => inflight = {"forecast"}
       /\ pc = "idle" => (resp.forecast.kind # "none"
                            /\ ForecastRendered(resp.forecast))

C9_Witness ==
  /\ pc = "idle" /\ resp.icon = Http(200, Garbage)
  /\ icon_img # None /\ icon_label = <<>>
  /\ Len(LinesOf(forecast_text)) = 3

\* -------------------------------------------------------------------- C10
Rank(ep) ==
  CASE ep = "geo" -> 1 [] ep = "weather" -> 2 [] ep = "icon" -> 3
    [] ep = "forecast" -> 4

OneAtATime ==
  /\ Cardinality(inflight) <= 1
  /\ pc = "idle" <=> inflight = {}
  /\ pc # "idle" => (inflight = {pc} /\ Endpoints(log)[Len(log)] = pc)
  /\ \A i, j \in 1..Len(log) : i < j => Rank(log[i].ep) < Rank(log[j].ep)
  /\ Asked("geo") => event = "loc"
  /\ \A ep \in {"geo", "weather", "icon", "forecast"} :
       resp[ep].kind # "none" => Asked(ep)

\* C10: each user action issues at most one request per endpoint, never
\* again after a failure, in the order geolocation (device action only),
\* current conditions, icon, forecast; at most one request is in flight;
\* and while a handler runs no user event is handled.
C10_SequentialRequests ==
  /\ []OneAtATime
  /\ [][pc # "idle" => /\ event' = event /\ inputs' = inputs
                       /\ IsPrefix(log, log')
                       /\ Len(log') <= Len(log) + 1]_vars

C10_Witness ==
  /\ pc = "idle" /\ event = "loc"
  /\ Endpoints(log) = <<"geo", "weather", "icon", "forecast">>
  /\ ForecastCallFailed(resp.forecast)

====
